---- MODULE Spec2Model ----
(***************************************************************************)
(* Model of scripts/convert-mirage-samples.py: the IFF/8SVX container      *)
(* parser (read_iff_chunk, parse_8svx), the sample transcoder              *)
(* (signed_to_unsigned), the budgeted selector (select_samples) and the    *)
(* ROM packer (create_es5503_rom), driven by main.                         *)
(*                                                                         *)
(* A file is a sequence of bytes (0..255); a file position is 0-based as   *)
(* in Python.  Declared chunk sizes stay below 2^31 in every file the      *)
(* model reads, so TLC's integers hold them exactly.                       *)
(***************************************************************************)
EXTENDS Integers, Sequences, FiniteSets, TLC

VARIABLES
    file,        \* parse_8svx alone: the bytes of the file being parsed
    ps,          \* parse_8svx alone: the parser's locals and position
    signed_pcm,  \* signed_to_unsigned alone: its argument
    unsigned,    \* signed_to_unsigned alone: the bytearray being built
    tpc,         \* signed_to_unsigned alone: "loop" | "done"
    fs,          \* the Mirage library: directory name -> [exists, files]
    max_size,    \* select_samples' budget
    pc,          \* position of main
    dir_idx,     \* index into priority_dirs of the directory being walked
    listing,     \* files of the current directory still to be visited
    samples,     \* accepted (name, pcm) pairs, in acceptance order
    total_size,  \* running total of accepted sizes
    wave_ram,    \* create_es5503_rom: the image being built
    offset,      \* create_es5503_rom: next free offset
    sample_map,  \* create_es5503_rom: one entry per packed sample
    pack_idx,    \* create_es5503_rom: number of samples packed so far
    rom_file,    \* bytes written to the ROM file (<<>> before the write)
    map_file,    \* lines written to the map file
    stdout       \* lines printed

parseVars == <<file, ps>>
xcodeVars == <<signed_pcm, unsigned, tpc>>
mainVars  == <<fs, max_size, pc, dir_idx, listing, samples, total_size,
               wave_ram, offset, sample_map, pack_idx, rom_file, map_file,
               stdout>>
vars == <<file, ps, signed_pcm, unsigned, tpc, fs, max_size, pc, dir_idx,
          listing, samples, total_size, wave_ram, offset, sample_map,
          pack_idx, rom_file, map_file, stdout>>

----------------------------------------------------------------------------
(* Bounds of the model *)

MaxPayload == 3   \* declared payload sizes of generated chunks: 0..MaxPayload
MaxChunks  == 2   \* chunks per generated container file
MaxPcmLen  == 3   \* length of the byte strings given to signed_to_unsigned
MaxFiles   == 2   \* files per directory of the library

----------------------------------------------------------------------------
(* Bytes and byte strings *)

Byte == 0..255

Min(a, b) == IF a < b THEN a ELSE b

\* f.read(n) at position pos: the bytes that are there, at most n of them
Read(f, pos, n) == SubSeq(f, pos + 1, Min(pos + n, Len(f)))

\* struct.unpack('>I', b)[0] of exactly four bytes
unpack_I(b) == ((b[1] * 256 + b[2]) * 256 + b[3]) * 256 + b[4]

\* struct.unpack('>H', b)[0] of exactly two bytes
unpack_H(b) == b[1] * 256 + b[2]

\* bytes.decode('ascii', errors='ignore'): bytes above 127 are dropped
IsAscii(b) == b < 128
decode_ascii(b) == SelectSeq(b, IsAscii)

\* ASCII tags
FORM == <<70, 79, 82, 77>>
SVX8 == <<56, 83, 86, 88>>
VHDR == <<86, 72, 68, 82>>
BODY == <<66, 79, 68, 89>>

DefaultRate == 22050

----------------------------------------------------------------------------
(* read_iff_chunk and parse_8svx *)

\* The parser before the file is opened.  body_size is a history field:
\* the chunk_size in effect when pcm_data was last assigned.
ParserStart ==
    [pc |-> "open", pos |-> 0, err |-> "",
     pcm_none |-> TRUE, pcm_data |-> <<>>,
     sample_rate |-> 0, one_shot_len |-> 0,
     chunk_id |-> <<>>, chunk_size |-> 0, chunk_start |-> 0,
     body_size |-> 0]

Raise(s, e) == [s EXCEPT !.pc = "error", !.err = e]

\* read_iff_chunk(f): [none, chunk_id, chunk_size, pos, err]
read_iff_chunk(f, pos) ==
    LET chunk_id == Read(f, pos, 4)
        p1       == pos + Len(chunk_id)
        szb      == Read(f, p1, 4)
        p2       == p1 + Len(szb)
    IN  IF Len(chunk_id) < 4
        THEN [none |-> TRUE, chunk_id |-> <<>>, chunk_size |-> 0,
              pos |-> p1, err |-> ""]
        ELSE IF Len(szb) < 4
        THEN [none |-> FALSE, chunk_id |-> <<>>, chunk_size |-> 0,
              pos |-> p2, err |-> "struct.error"]
        ELSE [none |-> FALSE, chunk_id |-> decode_ascii(chunk_id),
              chunk_size |-> unpack_I(szb), pos |-> p2, err |-> ""]

\* parse_8svx up to the loop: the FORM header and the defaults
parse_open(f, s) ==
    LET form_id   == Read(f, 0, 4)
        p1        == Len(form_id)
        szb       == Read(f, p1, 4)
        p2        == p1 + Len(szb)
        form_type == Read(f, p2, 4)
        p3        == p2 + Len(form_type)
    IN  IF form_id # FORM THEN Raise(s, "ValueError")
        ELSE IF Len(szb) < 4 THEN Raise(s, "struct.error")
        ELSE IF form_type # SVX8 THEN Raise(s, "ValueError")
        ELSE [s EXCEPT !.pc = "chunk", !.pos = p3,
                       !.pcm_none = TRUE, !.pcm_data = <<>>,
                       !.sample_rate = DefaultRate, !.one_shot_len = 0]

\* Top of the loop: read the chunk header; at end of file leave the loop
\* and return pcm_data or raise for a missing BODY.
parse_header(f, s) ==
    LET h == read_iff_chunk(f, s.pos)
    IN  IF h.err # "" THEN Raise([s EXCEPT !.pos = h.pos], h.err)
        ELSE IF h.none
        THEN IF s.pcm_none
             THEN Raise([s EXCEPT !.pos = h.pos, !.chunk_id = <<>>,
                                  !.chunk_size = 0], "ValueError")
             ELSE [s EXCEPT !.pc = "ok", !.pos = h.pos, !.chunk_id = <<>>,
                            !.chunk_size = 0]
        ELSE [s EXCEPT !.pc = "payload", !.pos = h.pos,
                       !.chunk_id = h.chunk_id, !.chunk_size = h.chunk_size,
                       !.chunk_start = h.pos]

seek_next_unpadded(s) == s.chunk_start + s.chunk_size

\* f.seek(chunk_start + chunk_size + (chunk_size % 2))
seek_next(s) == s.chunk_start + s.chunk_size + (s.chunk_size % 2)

\* The VHDR branch: three uint32 and one uint16, read one after the other
parse_vhdr(f, s) ==
    LET b1 == Read(f, s.pos, 4)
        p1 == s.pos + Len(b1)
        b2 == Read(f, p1, 4)
        p2 == p1 + Len(b2)
        b3 == Read(f, p2, 4)
        p3 == p2 + Len(b3)
        b4 == Read(f, p3, 2)
        p4 == p3 + Len(b4)
    IN  IF Len(b1) < 4 THEN Raise([s EXCEPT !.pos = p1], "struct.error")
        ELSE IF Len(b2) < 4
        THEN Raise([s EXCEPT !.pos = p2, !.one_shot_len = unpack_I(b1)],
                   "struct.error")
        ELSE IF Len(b3) < 4
        THEN Raise([s EXCEPT !.pos = p3, !.one_shot_len = unpack_I(b1)],
                   "struct.error")
        ELSE IF Len(b4) < 2
        THEN Raise([s EXCEPT !.pos = p4, !.one_shot_len = unpack_I(b1)],
                   "struct.error")
        ELSE [s EXCEPT !.pos = p4, !.one_shot_len = unpack_I(b1),
                       !.sample_rate = unpack_H(b4)]

\* The BODY branch: pcm_data = f.read(chunk_size)
parse_body(f, s) ==
    LET data == Read(f, s.pos, s.chunk_size)
    IN  [s EXCEPT !.pos = s.pos + Len(data), !.pcm_none = FALSE,
                  !.pcm_data = data, !.body_size = s.chunk_size]

\* Rest of the loop body: the chunk's branch, then the seek
parse_payload(f, s) ==
    LET t == IF s.chunk_id = VHDR THEN parse_vhdr(f, s)
             ELSE IF s.chunk_id = BODY THEN parse_body(f, s)
             ELSE s
    IN  IF t.pc = "error" THEN t
        ELSE [t EXCEPT !.pc = "chunk", !.pos = seek_next(t)]

parse_step(f, s) ==
    CASE s.pc = "open"    -> parse_open(f, s)
      [] s.pc = "chunk"   -> parse_header(f, s)
      [] s.pc = "payload" -> parse_payload(f, s)
      [] OTHER            -> s

RECURSIVE parse_run(_, _)
parse_run(f, s) ==
    IF s.pc \in {"ok", "error"} THEN s ELSE parse_run(f, parse_step(f, s))

\* parse_8svx(filepath) on a file holding the bytes f
parse_8svx(f) == parse_run(f, ParserStart)

----------------------------------------------------------------------------
(* signed_to_unsigned *)

convert_byte_keep_zero(byte) == (byte + 128) % 256

convert_byte_no_wrap(byte) == IF byte = 128 THEN 1 ELSE byte + 128

\* One turn of the loop: the output byte for one input byte
convert_byte(byte) ==
    LET signed_value   == IF byte < 128 THEN byte ELSE byte - 256
        unsigned_value == (signed_value + 128) % 256
    IN  IF unsigned_value = 0 THEN 1 ELSE unsigned_value

signed_to_unsigned(s) == [i \in 1..Len(s) |-> convert_byte(s[i])]

----------------------------------------------------------------------------
(* Container files the parser is run on *)

\* struct.pack('>I', n)
pack_I(n) == <<(n \div 16777216) % 256, (n \div 65536) % 256,
               (n \div 256) % 256, n % 256>>

\* The ten body bytes of the end-to-end scenario
Pattern == <<128, 0, 127, 129, 255, 64, 192, 1, 63, 191>>

Bytes(n) == [i \in 1..n |-> Pattern[((i - 1) % 10) + 1]]

\* A VHDR payload: oneShotHiSamples, repeatHiSamples, samplesPerHiCycle,
\* samplesPerSec, then ctOctave, sCompression, volume
VhdrPayload(rate) ==
    pack_I(10) \o pack_I(0) \o pack_I(32) \o <<rate \div 256, rate % 256>>
    \o <<1, 0, 0, 1, 0, 0>>

NAME == <<78, 65, 77, 69>>

\* A chunk: tag, declared size, payload, and the pad byte of an odd payload
Chunk(tag, declared, payload) ==
    tag \o pack_I(declared) \o payload
    \o (IF Len(payload) % 2 = 1 THEN <<0>> ELSE <<>>)

Container(chunks) == FORM \o pack_I(4 + Len(chunks)) \o SVX8 \o chunks

GenChunks ==
    {Chunk(BODY, n, Bytes(n)) : n \in 0..MaxPayload}
    \cup {Chunk(NAME, n, Bytes(n)) : n \in 0..MaxPayload}
    \cup {Chunk(VHDR, n, SubSeq(VhdrPayload(8363), 1, n)) : n \in 0..MaxPayload}
    \cup {Chunk(VHDR, 20, VhdrPayload(8363))}

RECURSIVE Flatten(_)
Flatten(ss) == IF ss = <<>> THEN <<>> ELSE Head(ss) \o Flatten(Tail(ss))

GenContainers ==
    {Container(Flatten(cs)) :
        cs \in UNION {[1..k -> GenChunks] : k \in 0..MaxChunks}}

\* Every truncation of a generated container, and two files whose magic
\* tags are wrong
FilesOf(c) ==
    {SubSeq(c, 1, k) : k \in 0..Len(c)}
    \cup {[c EXCEPT ![4] = 88], [c EXCEPT ![12] = 70]}

----------------------------------------------------------------------------
(* Idle values of the variables a specification does not use *)

ParseIdle == file = <<>> /\ ps = ParserStart

XcodeIdle == signed_pcm = <<>> /\ unsigned = <<>> /\ tpc = "idle"

MainIdle ==
    /\ fs = <<>> /\ max_size = 0 /\ pc = "idle" /\ dir_idx = 0
    /\ listing = <<>> /\ samples = <<>> /\ total_size = 0
    /\ wave_ram = <<>> /\ offset = 0 /\ sample_map = <<>> /\ pack_idx = 0
    /\ rom_file = <<>> /\ map_file = <<>> /\ stdout = <<>>

----------------------------------------------------------------------------
(* SpecParse: parse_8svx run step by step on one file *)

InitParse ==
    /\ \E c \in GenContainers : file \in FilesOf(c)
    /\ ps = ParserStart /\ XcodeIdle /\ MainIdle

ParseOpen ==
    /\ ps.pc = "open"
    /\ ps' = parse_open(file, ps)
    /\ UNCHANGED <<file, xcodeVars, mainVars>>

ParseHeader ==
    /\ ps.pc = "chunk"
    /\ ps' = parse_header(file, ps)
    /\ UNCHANGED <<file, xcodeVars, mainVars>>

ParsePayload ==
    /\ ps.pc = "payload"
    /\ ps' = parse_payload(file, ps)
    /\ UNCHANGED <<file, xcodeVars, mainVars>>

NextParse == ParseOpen \/ ParseHeader \/ ParsePayload

SpecParse == InitParse /\ [][NextParse]_vars

----------------------------------------------------------------------------
(* SpecXcode: signed_to_unsigned run byte by byte on one byte string *)

\* The bytes of the end-to-end scenario stand for the rest in longer strings
XcodeInputs ==
    {<<>>} \cup {<<b>> : b \in Byte}
    \cup UNION {[1..k -> {Pattern[i] : i \in 1..10}] : k \in 2..MaxPcmLen}

InitXcode ==
    /\ signed_pcm \in XcodeInputs /\ unsigned = <<>> /\ tpc = "loop"
    /\ ParseIdle /\ MainIdle

XcodeByte ==
    /\ tpc = "loop" /\ Len(unsigned) < Len(signed_pcm)
    /\ unsigned' = Append(unsigned, convert_byte(signed_pcm[Len(unsigned) + 1]))
    /\ UNCHANGED <<signed_pcm, tpc, parseVars, mainVars>>

XcodeReturn ==
    /\ tpc = "loop" /\ Len(unsigned) = Len(signed_pcm)
    /\ tpc' = "done"
    /\ UNCHANGED <<signed_pcm, unsigned, parseVars, mainVars>>

NextXcode == XcodeByte \/ XcodeReturn

SpecXcode == InitXcode /\ [][NextXcode]_vars

----------------------------------------------------------------------------
(* The Mirage library select_samples walks *)

priority_dirs ==
    <<"SYNTH_48", "DIGITAL1", "DIGITAL2", "A", "STRINGS1", "BRASS1",
      "BAS-SYN1", "CLASSIC1">>

SampleCeiling == 32768
HeaderSize    == 2048
PageSize      == 256
MainBudget    == 129024   \* 126 * 1024

\* The *.8svx files a directory can hold, in name order, and their bytes
LibNames ==
    <<"a_scn.8svx", "c_odd.8svx", "d_magic.8svx", "e_nobody.8svx",
      "f_trunc.8svx", "g_long.8svx">>

LongBody == [i \in 1..(SampleCeiling + 1) |-> 64]

LibBytes(name) ==
    CASE name = "a_scn.8svx" ->
             Container(Chunk(VHDR, 20, VhdrPayload(22050))
                       \o Chunk(BODY, 10, Pattern))
      [] name = "c_odd.8svx" ->
             Container(Chunk(BODY, 3, <<128, 255, 1>>)
                       \o Chunk(NAME, 1, <<65>>))
      [] name = "d_magic.8svx" ->
             <<82, 73, 70, 70>> \o pack_I(4) \o SVX8
      [] name = "e_nobody.8svx" ->
             Container(Chunk(VHDR, 20, VhdrPayload(8363)))
      [] name = "f_trunc.8svx" ->
             Container(Chunk(VHDR, 20, VhdrPayload(8363)) \o BODY \o <<0, 0>>)
      [] name = "g_long.8svx" ->
             Container(Chunk(BODY, SampleCeiling + 1, LongBody))

LibIndex(name) == CHOOSE i \in 1..Len(LibNames) : LibNames[i] = name

\* The library's files do not change during a run, so parse_8svx and
\* signed_to_unsigned are computed once for each of them.
RECURSIVE ParsedFrom(_)
ParsedFrom(i) ==
    IF i > Len(LibNames) THEN <<>>
    ELSE <<parse_8svx(LibBytes(LibNames[i]))>> \o ParsedFrom(i + 1)

LibParsed == ParsedFrom(1)

RECURSIVE TranscodedFrom(_)
TranscodedFrom(i) ==
    IF i > Len(LibNames) THEN <<>>
    ELSE <<signed_to_unsigned(LibParsed[i].pcm_data)>> \o TranscodedFrom(i + 1)

LibTranscoded == TranscodedFrom(1)

\* sorted(dir_path.glob('*.8svx')) of a directory holding the files S
RECURSIVE SortedFrom(_, _)
SortedFrom(S, i) ==
    IF i > Len(LibNames) THEN <<>>
    ELSE (IF LibNames[i] \in S THEN <<LibNames[i]>> ELSE <<>>)
         \o SortedFrom(S, i + 1)

sorted_glob(S) == SortedFrom(S, 1)

\* Directories of the library that may exist; the others never do
PopulatedDirs == {"SYNTH_48", "A"}

DirContents ==
    {[exists |-> FALSE, files |-> {}]}
    \cup {[exists |-> TRUE, files |-> S] :
            S \in {T \in SUBSET {LibNames[i] : i \in 1..Len(LibNames)} :
                     Cardinality(T) <= MaxFiles}}

DirNames == {priority_dirs[i] : i \in 1..Len(priority_dirs)}

Libraries ==
    {[exists |-> FALSE, dirs |-> [d \in DirNames |-> [exists |-> FALSE, files |-> {}]]]}
    \cup {[exists |-> TRUE,
           dirs |-> [d \in DirNames |->
                       IF d = "SYNTH_48" THEN c1
                       ELSE IF d = "A" THEN c2
                       ELSE [exists |-> FALSE, files |-> {}]]] :
            c1 \in DirContents, c2 \in DirContents}

Budgets == {0, 5, 15, HeaderSize + 5, MainBudget}

----------------------------------------------------------------------------
(* Text: f"{n}" and f"{n:04X}" as strings of digit characters *)

Digits == <<"0", "1", "2", "3", "4", "5", "6", "7", "8", "9",
            "A", "B", "C", "D", "E", "F">>

RECURSIVE to_digits(_, _)
to_digits(n, base) ==
    IF n < base THEN <<Digits[n + 1]>>
    ELSE to_digits(n \div base, base) \o <<Digits[(n % base) + 1]>>

str_int(n) == to_digits(n, 10)

format_04X(n) ==
    LET d == to_digits(n, 16)
    IN  [i \in 1..(4 - Len(d)) |-> "0"] \o d

----------------------------------------------------------------------------
(* select_samples *)

too_long_never(n) == FALSE

\* len(pcm_unsigned) > 32768
too_long(n) == n > SampleCeiling

over_budget_plus_header(total, n, budget) == total + n > budget + HeaderSize

over_budget_alone(total, n, budget) == n > budget

\* total_size + len(pcm_unsigned) > max_size
over_budget(total, n, budget) == total + n > budget

parse_error_aborts(smp, total, out, path, err) ==
    [samples |-> smp, total_size |-> total, returned |-> TRUE,
     stdout |-> Append(out, [label |-> "Warning: Failed to parse",
                             path |-> path, err |-> err])]

\* except Exception as e: print the warning and continue
on_parse_error(smp, total, out, path, err) ==
    [samples |-> smp, total_size |-> total, returned |-> FALSE,
     stdout |-> Append(out, [label |-> "Warning: Failed to parse",
                             path |-> path, err |-> err])]

budget_exceeded_skips(smp, total, out) ==
    [samples |-> smp, total_size |-> total, returned |-> FALSE,
     stdout |-> Append(out, [label |-> "Size limit reached at",
                             bytes |-> str_int(total)])]

\* print(f"Size limit reached at {total_size} bytes"); return samples
on_budget_exceeded(smp, total, out) ==
    [samples |-> smp, total_size |-> total, returned |-> TRUE,
     stdout |-> Append(out, [label |-> "Size limit reached at",
                             bytes |-> str_int(total)])]

\* One turn of the inner loop on the file `name` of directory `dir_name`:
\* what the try block and its handler leave behind.
\* [samples, total_size, stdout, returned]
select_file(dir_name, name, smp, total, budget, out) ==
    LET r            == LibParsed[LibIndex(name)]
        pcm_unsigned == LibTranscoded[LibIndex(name)]
        n            == Len(pcm_unsigned)
        sample_name  == dir_name \o "/" \o name
    IN  IF r.pc = "error"
        THEN on_parse_error(smp, total, out, sample_name, r.err)
        ELSE IF too_long(n)
        THEN [samples |-> smp, total_size |-> total, returned |-> FALSE,
              stdout |-> out]
        ELSE IF over_budget(total, n, budget)
        THEN on_budget_exceeded(smp, total, out)
        ELSE [samples |-> Append(smp, [name |-> sample_name,
                                       pcm |-> pcm_unsigned]),
              total_size |-> total + n, returned |-> FALSE,
              stdout |-> Append(out, [label |-> "Added", name |-> sample_name,
                                      bytes |-> str_int(n),
                                      rate |-> str_int(r.sample_rate)])]

----------------------------------------------------------------------------
(* Spec: main, with select_samples' budget an input *)

Init ==
    /\ fs \in Libraries
    /\ max_size \in Budgets
    /\ pc = "main"
    /\ dir_idx = 0 /\ listing = <<>> /\ samples = <<>> /\ total_size = 0
    /\ wave_ram = <<>> /\ offset = 0 /\ sample_map = <<>> /\ pack_idx = 0
    /\ rom_file = <<>> /\ map_file = <<>> /\ stdout = <<>>
    /\ ParseIdle /\ XcodeIdle

selectVars == <<samples, total_size>>
packVars   == <<wave_ram, offset, sample_map, pack_idx, rom_file, map_file>>

\* main up to the call of select_samples, when the library is missing
MainNoLibrary ==
    /\ pc = "main" /\ ~fs.exists
    /\ pc' = "exit1"
    /\ stdout' = Append(stdout, [label |-> "Error: Mirage samples not found"])
    /\ UNCHANGED <<fs, max_size, dir_idx, listing, selectVars, packVars,
                   parseVars, xcodeVars>>

\* main up to the call of select_samples, and select_samples up to its loop
MainStart ==
    /\ pc = "main" /\ fs.exists
    /\ pc' = "select_dir"
    /\ stdout' = stdout \o <<[label |-> "Converting"], [label |-> "Source"],
                             [label |-> "Output"], [label |-> "blank"]>>
    /\ samples' = <<>> /\ total_size' = 0
    /\ dir_idx' = 1 /\ listing' = <<>>
    /\ UNCHANGED <<fs, max_size, packVars, parseVars, xcodeVars>>

\* for dir_name in priority_dirs: a directory that does not exist
SelectDirMissing ==
    /\ pc = "select_dir" /\ dir_idx <= Len(priority_dirs)
    /\ ~fs.dirs[priority_dirs[dir_idx]].exists
    /\ dir_idx' = dir_idx + 1
    /\ UNCHANGED <<fs, max_size, pc, listing, selectVars, packVars, stdout,
                   parseVars, xcodeVars>>

\* for dir_name in priority_dirs: a directory that exists is listed
SelectDirEnter ==
    /\ pc = "select_dir" /\ dir_idx <= Len(priority_dirs)
    /\ fs.dirs[priority_dirs[dir_idx]].exists
    /\ listing' = sorted_glob(fs.dirs[priority_dirs[dir_idx]].files)
    /\ pc' = "select_file"
    /\ UNCHANGED <<fs, max_size, dir_idx, selectVars, packVars, stdout,
                   parseVars, xcodeVars>>

\* for svx_file in sorted(...): one file
SelectFile ==
    /\ pc = "select_file" /\ listing # <<>>
    /\ \E r \in {select_file(priority_dirs[dir_idx], Head(listing), samples,
                            total_size, max_size, stdout)} :
           /\ samples' = r.samples
           /\ total_size' = r.total_size
           /\ stdout' = r.stdout
           /\ pc' = IF r.returned THEN "selected" ELSE "select_file"
    /\ listing' = Tail(listing)
    /\ UNCHANGED <<fs, max_size, dir_idx, packVars, parseVars, xcodeVars>>

\* for svx_file in sorted(...): the listing is exhausted
SelectDirDone ==
    /\ pc = "select_file" /\ listing = <<>>
    /\ dir_idx' = dir_idx + 1
    /\ pc' = "select_dir"
    /\ UNCHANGED <<fs, max_size, listing, selectVars, packVars, stdout,
                   parseVars, xcodeVars>>

\* return samples, after the last directory
SelectReturn ==
    /\ pc = "select_dir" /\ dir_idx > Len(priority_dirs)
    /\ pc' = "selected"
    /\ UNCHANGED <<fs, max_size, dir_idx, listing, selectVars, packVars,
                   stdout, parseVars, xcodeVars>>

\* main: if not samples: exit
MainNoSamples ==
    /\ pc = "selected" /\ samples = <<>>
    /\ pc' = "exit1"
    /\ stdout' = Append(stdout, [label |-> "Error: No samples selected"])
    /\ UNCHANGED <<fs, max_size, dir_idx, listing, selectVars, packVars,
                   parseVars, xcodeVars>>

\* main calls create_es5503_rom, which sets up its locals
PackStart ==
    /\ pc = "selected" /\ samples # <<>>
    /\ wave_ram' = [i \in 1..HeaderSize |-> 0]
    /\ offset' = HeaderSize
    /\ sample_map' = <<>>
    /\ pack_idx' = 0
    /\ pc' = "pack"
    /\ UNCHANGED <<fs, max_size, dir_idx, listing, selectVars, rom_file,
                   map_file, stdout, parseVars, xcodeVars>>

page_of_region(off) == (off - HeaderSize) \div PageSize

\* offset // 256
page_of(off) == off \div PageSize

extend_even(ram, pcm) == ram \o pcm \o (IF Len(pcm) % 2 = 1 THEN <<0>> ELSE <<>>)

\* wave_ram.extend(pcm_data)
extend(ram, pcm) == ram \o pcm

next_offset_paged(off, n) == ((off + n + PageSize - 1) \div PageSize) * PageSize

\* offset += len(pcm_data)
next_offset(off, n) == off + n

\* for name, pcm_data in samples: one sample
PackSample ==
    /\ pc = "pack" /\ pack_idx < Len(samples)
    /\ LET smp == samples[pack_idx + 1]
       IN  /\ wave_ram' = extend(wave_ram, smp.pcm)
           /\ sample_map' = Append(sample_map,
                  [name |-> smp.name, offset |-> offset,
                   size |-> Len(smp.pcm), page |-> page_of(offset)])
           /\ offset' = next_offset(offset, Len(smp.pcm))
    /\ pack_idx' = pack_idx + 1
    /\ UNCHANGED <<fs, max_size, pc, dir_idx, listing, selectVars, rom_file,
                   map_file, stdout, parseVars, xcodeVars>>

\* The ROM file is written
WriteRom ==
    /\ pc = "pack" /\ pack_idx = Len(samples)
    /\ rom_file' = wave_ram
    /\ pc' = "write_map"
    /\ UNCHANGED <<fs, max_size, dir_idx, listing, selectVars, wave_ram,
                   offset, sample_map, pack_idx, map_file, stdout, parseVars,
                   xcodeVars>>

\* The four lines and the blank line of one entry of the map file
map_entry(e) ==
    <<[label |-> "Sample", name |-> e.name],
      [label |-> "Offset", hex |-> format_04X(e.offset),
                           dec |-> str_int(e.offset)],
      [label |-> "Page", dec |-> str_int(e.page)],
      [label |-> "Size", dec |-> str_int(e.size)],
      [label |-> "blank"]>>

RECURSIVE map_entries(_)
map_entries(m) ==
    IF m = <<>> THEN <<>> ELSE map_entry(Head(m)) \o map_entries(Tail(m))

\* The text of the map file
map_text(m, ram) ==
    <<[label |-> "ES5503 Wave ROM Sample Map"], [label |-> "rule"],
      [label |-> "blank"]>>
    \o map_entries(m)
    \o <<[label |-> "blank"],
         [label |-> "Total ROM size", dec |-> str_int(Len(ram))]>>

\* What create_es5503_rom prints after writing both files
rom_report(ram, smp) ==
    <<[label |-> "blank"],
      [label |-> "Created", dec |-> str_int(Len(ram))],
      [label |-> "Sample map"],
      [label |-> "Total samples", dec |-> str_int(Len(smp))]>>

\* The map file is written and create_es5503_rom reports
WriteMap ==
    /\ pc = "write_map"
    /\ map_file' = map_text(sample_map, wave_ram)
    /\ stdout' = stdout \o rom_report(wave_ram, samples)
    /\ pc' = "created"
    /\ UNCHANGED <<fs, max_size, dir_idx, listing, selectVars, wave_ram,
                   offset, sample_map, pack_idx, rom_file, parseVars,
                   xcodeVars>>

\* main's closing lines
MainDone ==
    /\ pc = "created"
    /\ stdout' = stdout \o <<[label |-> "Conversion complete!"],
                             [label |-> "Next steps:"],
                             [label |-> "1. Zip the ROM"],
                             [label |-> "2. ES5503 will auto-load this ROM"]>>
    /\ pc' = "done"
    /\ UNCHANGED <<fs, max_size, dir_idx, listing, selectVars, packVars,
                   parseVars, xcodeVars>>

Next ==
    \/ MainNoLibrary \/ MainStart
    \/ SelectDirMissing \/ SelectDirEnter \/ SelectFile \/ SelectDirDone
    \/ SelectReturn
    \/ MainNoSamples \/ PackStart \/ PackSample \/ WriteRom \/ WriteMap
    \/ MainDone

Spec == Init /\ [][Next]_vars

----------------------------------------------------------------------------
(* Properties *)

\* Sum of the sizes of the first k accepted samples
RECURSIVE SizeOfFirst(_, _)
SizeOfFirst(smp, k) ==
    IF k = 0 THEN 0 ELSE SizeOfFirst(smp, k - 1) + Len(smp[k].pcm)

\* The candidates of a run in the order select_samples meets them:
\* <<directory, file>> pairs
RECURSIVE CandidatesFrom(_)
CandidatesFrom(d) ==
    IF d > Len(priority_dirs) THEN <<>>
    ELSE LET dir == fs.dirs[priority_dirs[d]]
             ls  == IF dir.exists THEN sorted_glob(dir.files) ELSE <<>>
         IN  [i \in 1..Len(ls) |-> <<priority_dirs[d], ls[i]>>]
             \o CandidatesFrom(d + 1)

Candidates == CandidatesFrom(1)

\* C1: the running total of accepted sizes, and the total size of the
\* accepted list, never exceed the budget max_size, in any state of the
\* selection loop and after select_samples has returned.
C1_BudgetNeverExceeded ==
    /\ total_size <= max_size
    /\ SizeOfFirst(samples, Len(samples)) <= max_size
    /\ total_size = SizeOfFirst(samples, Len(samples))

\* A run that accepted a sample and then halted on the budget
C1_Witness ==
    /\ pc = "selected" /\ samples # <<>> /\ total_size > 0
    /\ stdout[Len(stdout)].label = "Size limit reached at"

\* C2: the offset recorded for the i-th packed sample is 2048 plus the sizes
\* of the samples before it, so the ranges [offset, offset + size) follow one
\* another in acceptance order without gap or overlap.
C2_OffsetPacking ==
    /\ Len(sample_map) <= Len(samples)
    /\ \A i \in 1..Len(sample_map) :
          /\ sample_map[i].offset = 2048 + SizeOfFirst(samples, i - 1)
          /\ sample_map[i].size = Len(samples[i].pcm)
          /\ sample_map[i].name = samples[i].name
    /\ \A i \in 1..(Len(sample_map) - 1) :
          sample_map[i + 1].offset = sample_map[i].offset + sample_map[i].size
    /\ \A i, j \in 1..Len(sample_map) :
          i < j => sample_map[i].offset + sample_map[i].size
                       <= sample_map[j].offset

\* Three samples of two different sizes have been packed
C2_Witness ==
    /\ Len(sample_map) = 3
    /\ sample_map[1].size # sample_map[2].size
    /\ sample_map[3].offset > sample_map[2].offset

\* C3: signed_to_unsigned never outputs the byte 0x00, so no accepted sample
\* and no byte of the image from offset 2048 on is 0x00.
C3_EveryByte == \A b \in Byte : signed_to_unsigned(<<b>>)[1] # 0

C3_NoSentinel ==
    /\ C3_EveryByte
    /\ \A i \in 1..Len(samples) :
          \A k \in 1..Len(samples[i].pcm) : samples[i].pcm[k] # 0
    /\ \A k \in 2049..Len(wave_ram) : wave_ram[k] # 0
    /\ \A k \in 2049..Len(rom_file) : rom_file[k] # 0

\* The written image starts with the scenario's sample, whose first input
\* byte 0x80 would have mapped to 0x00
C3_Witness ==
    /\ pc = "done" /\ Len(rom_file) > 2048
    /\ samples[1].name = "SYNTH_48/a_scn.8svx"
    /\ LibParsed[1].pcm_data[1] = 128
    /\ rom_file[2049] = 1

\* (s + 128) mod 256 with 0 replaced by 1
C4_Expected(b) == IF (b + 128) % 256 = 0 THEN 1 ELSE (b + 128) % 256

\* C4: the output of signed_to_unsigned has the length of its input and its
\* i-th byte is (s[i] + 128) mod 256, with 1 in place of 0; so 0x80 gives
\* 0x01, 0x00 gives 0x80, 0x7F gives 0xFF, 0x81 gives 0x01 too, and every byte
\* but 0x80 is exactly shifted.
C4_Transcoding ==
    /\ Len(unsigned) <= Len(signed_pcm)
    /\ tpc = "done" =>
          /\ Len(unsigned) = Len(signed_pcm)
          /\ unsigned = signed_to_unsigned(signed_pcm)
    /\ \A i \in 1..Len(unsigned) :
          /\ unsigned[i] = C4_Expected(signed_pcm[i])
          /\ signed_pcm[i] = 128 => unsigned[i] = 1
          /\ signed_pcm[i] = 0 => unsigned[i] = 128
          /\ signed_pcm[i] = 127 => unsigned[i] = 255
          /\ signed_pcm[i] = 129 => unsigned[i] = 1
          /\ signed_pcm[i] # 128 => unsigned[i] = (signed_pcm[i] + 128) % 256

\* A finished run on a string that holds 0x80 beside other bytes
C4_Witness ==
    /\ tpc = "done" /\ Len(signed_pcm) = 3
    /\ signed_pcm[1] = 128 /\ signed_pcm[2] = 129 /\ signed_pcm[3] = 127
    /\ unsigned = <<1, 1, 255>>

\* C5: the written image is 2048 zero bytes followed by the accepted samples'
\* transcoded bytes in acceptance order, each at its recorded offset, with
\* nothing between them: its length is 2048 plus the accepted sizes.
C5_RomLayout ==
    pc \in {"write_map", "created", "done"} =>
        /\ Len(rom_file) = 2048 + SizeOfFirst(samples, Len(samples))
        /\ \A k \in 1..2048 : rom_file[k] = 0
        /\ Len(sample_map) = Len(samples)
        /\ \A i \in 1..Len(samples) :
              /\ sample_map[i].size = Len(samples[i].pcm)
              /\ \A k \in 1..Len(samples[i].pcm) :
                    rom_file[sample_map[i].offset + k] = samples[i].pcm[k]
        /\ \A i \in 1..(Len(samples) - 1) :
              sample_map[i + 1].offset = sample_map[i].offset + sample_map[i].size
        /\ Len(samples) > 0 =>
              /\ sample_map[1].offset = 2048
              /\ sample_map[Len(samples)].offset + sample_map[Len(samples)].size
                     = Len(rom_file)

\* An image of an odd-sized sample followed by another sample
C5_Witness ==
    /\ pc = "done" /\ Len(samples) >= 2
    /\ Len(samples[1].pcm) = 3
    /\ Len(rom_file) > 2048 + 3

\* The run's candidates are exactly two files that parse to 10 bytes each
C6_TwoTenByteCandidates ==
    /\ fs.exists
    /\ Len(Candidates) = 2
    /\ \A i \in 1..2 :
          /\ LibParsed[LibIndex(Candidates[i][2])].pc = "ok"
          /\ Len(LibTranscoded[LibIndex(Candidates[i][2])]) = 10

\* C6 as stated: with max_size = 2048 + 5 and two 10-byte candidates,
\* select_samples returns no sample.
C6_AsStated ==
    (pc = "selected" /\ max_size = 2048 + 5 /\ C6_TwoTenByteCandidates)
        => samples = <<>>

\* C6, amended: the budget does not count the 2048-byte header, so it is with
\* max_size = 5 that the first of two 10-byte candidates is rejected
\* (0 + 10 > 5), selection halts at once without visiting the second, and no
\* sample is returned.
C6_BudgetOfFive ==
    (max_size = 5 /\ C6_TwoTenByteCandidates) =>
        /\ samples = <<>> /\ total_size = 0
        /\ pc \notin {"pack", "write_map", "created", "done"}
        /\ pc = "selected" =>
              /\ Len(stdout) = 5
              /\ stdout[5].label = "Size limit reached at"
              /\ stdout[5].bytes = <<"0">>
              /\ \/ listing = <<Candidates[2][2]>>
                 \/ /\ listing = <<>>
                    /\ priority_dirs[dir_idx] = Candidates[1][1]
                    /\ Candidates[2][1] # Candidates[1][1]

\* select_samples has returned from that run
C6_Witness ==
    pc = "selected" /\ max_size = 5 /\ C6_TwoTenByteCandidates

\* Whether some chunk of the container f, read from position p on, declares
\* more payload than the file holds
RECURSIVE ChunkOverruns(_, _)
ChunkOverruns(f, p) ==
    IF p + 8 > Len(f) THEN FALSE
    ELSE LET n == unpack_I(SubSeq(f, p + 5, p + 8))
         IN  IF p + 8 + n > Len(f) THEN TRUE
             ELSE ChunkOverruns(f, p + 8 + n + (n % 2))

\* C7: parse_8svx fails on a file in which a chunk's declared size extends
\* past the end of the file, and pcm_data, when parse_8svx returns, is as long
\* as its BODY chunk declares.
C7_TruncationFails ==
    ps.pc = "ok" =>
        /\ ~ChunkOverruns(file, 12)
        /\ Len(ps.pcm_data) = ps.body_size

\* C8: the chunk header after a chunk whose payload starts at p with declared
\* size n is read at p + n + (n mod 2), whatever the chunk's branch read:
\* one pad byte is skipped when n is odd and none when n is even.
C8_NextChunkPosition ==
    [][(ps.pc = "payload" /\ ps'.pc = "chunk") =>
          LET p == ps.pos
              n == unpack_I(SubSeq(file, p - 3, p))
          IN  /\ ps'.pos = p + n + (n % 2)
              /\ ps'.pos - (p + n) = (IF n % 2 = 1 THEN 1 ELSE 0)]_vars

\* A VHDR chunk of odd declared size, whose branch read 14 bytes, has been
\* processed and a later chunk header has been read after its pad byte
C8_Witness ==
    /\ ps.pc = "payload" /\ ps.chunk_id = BODY /\ ps.chunk_size % 2 = 1
    /\ ps.chunk_start = 12 + 8 + 3 + 1 + 8
    /\ SubSeq(file, 13, 16) = VHDR
    /\ unpack_I(SubSeq(file, 17, 20)) = 3

FailingNames == {"d_magic.8svx", "e_nobody.8svx", "f_trunc.8svx"}

\* What selection accepts from candidates that all parse: the greedy walk
RECURSIVE C9_Greedy(_, _, _)
C9_Greedy(cands, total, budget) ==
    IF cands = <<>> THEN <<>>
    ELSE LET n == Len(LibParsed[LibIndex(Head(cands)[2])].pcm_data)
         IN  IF n > 32768 THEN C9_Greedy(Tail(cands), total, budget)
             ELSE IF total + n > budget THEN <<>>
             ELSE <<Head(cands)>> \o C9_Greedy(Tail(cands), total + n, budget)

C9_Parses(c) == c[2] \notin FailingNames

C9_AsIfAbsent ==
    pc \in {"selected", "pack", "write_map", "created", "done"} =>
        /\ Len(samples) = Len(C9_Greedy(SelectSeq(Candidates, C9_Parses), 0, max_size))
        /\ \A i \in 1..Len(samples) :
              LET c == C9_Greedy(SelectSeq(Candidates, C9_Parses), 0, max_size)[i]
              IN  samples[i].name = c[1] \o "/" \o c[2]

\* C9: a candidate that fails to parse (wrong magic tag, no BODY chunk,
\* truncated read) leaves the accepted list and the running total as they
\* were and selection goes on with the next candidate; what select_samples
\* returns is what it returns with the failing candidates left out.
C9_ParseFailureSkipped ==
    /\ [][(pc = "select_file" /\ listing # <<>> /\ Head(listing) \in FailingNames)
            => /\ samples' = samples
               /\ total_size' = total_size
               /\ pc' = "select_file"
               /\ listing' = Tail(listing)
               /\ dir_idx' = dir_idx]_vars
    /\ [](\A i \in 1..Len(LibNames) :
             LibNames[i] \in FailingNames <=> LibParsed[i].pc = "error")
    /\ []C9_AsIfAbsent

\* A sample was accepted after a truncated file had been skipped
C9_Witness ==
    \E i, j \in 1..Len(stdout) :
        /\ i < j
        /\ stdout[i].label = "Warning: Failed to parse"
        /\ stdout[i].err = "struct.error"
        /\ stdout[j].label = "Added"

\* The number a string of digits denotes
DigitValue(c) == CHOOSE v \in 0..15 : Digits[v + 1] = c

RECURSIVE NumberOf(_, _)
NumberOf(d, base) ==
    IF d = <<>> THEN 0
    ELSE NumberOf(SubSeq(d, 1, Len(d) - 1), base) * base + DigitValue(d[Len(d)])

\* The map file holds, after its three heading lines, one record per accepted
\* sample in acceptance order, then a blank line and the image length
C10_Records ==
    LET n == Len(samples)
    IN  /\ Len(map_file) >= 3 + 5 * n + 2
        /\ \A i \in 1..n :
              LET b   == 3 + 5 * (i - 1)
                  off == 2048 + SizeOfFirst(samples, i - 1)
              IN  /\ map_file[b + 1].label = "Sample"
                  /\ map_file[b + 1].name = samples[i].name
                  /\ map_file[b + 2].label = "Offset"
                  /\ Len(map_file[b + 2].hex) >= 4
                  /\ NumberOf(map_file[b + 2].hex, 16) = off
                  /\ NumberOf(map_file[b + 2].dec, 10) = off
                  /\ map_file[b + 3].label = "Page"
                  /\ NumberOf(map_file[b + 3].dec, 10) = off \div 256
                  /\ map_file[b + 4].label = "Size"
                  /\ NumberOf(map_file[b + 4].dec, 10) = Len(samples[i].pcm)
        /\ map_file[3 + 5 * n + 2].label = "Total ROM size"
        /\ NumberOf(map_file[3 + 5 * n + 2].dec, 10) = Len(rom_file)

HeadSize == Len(LibTranscoded[LibIndex(Head(listing))])

\* The inner loop is at a candidate that parses, is no longer than 32768
\* bytes and would take the running total over the budget
C11_AtOverflow ==
    /\ pc = "select_file" /\ listing # <<>>
    /\ LibParsed[LibIndex(Head(listing))].pc = "ok"
    /\ HeadSize <= 32768
    /\ total_size + HeadSize > max_size

\* Some candidate after position k of the run's order parses and is small
\* enough to fit what is left of the budget
C11_LaterFits(k) ==
    \E j \in (k + 1)..Len(Candidates) :
        /\ LibParsed[LibIndex(Candidates[j][2])].pc = "ok"
        /\ total_size + Len(LibTranscoded[LibIndex(Candidates[j][2])]) <= max_size

\* C11: at the first parsed candidate of at most 32768 bytes that would take
\* the running total over the budget, select_samples returns the samples
\* accepted so far; from then on the accepted list never changes, so no later
\* candidate of the same or of a later directory is accepted, even one that
\* would fit.
C11_BudgetEndsSelection ==
    /\ [][C11_AtOverflow =>
            /\ pc' = "selected"
            /\ samples' = samples
            /\ total_size' = total_size]_vars
    /\ [][(pc \in {"selected", "exit1", "pack", "write_map", "created", "done"})
            => /\ pc' \notin {"select_dir", "select_file"}
               /\ samples' = samples
               /\ total_size' = total_size]_vars
    /\ [](pc \in {"selected", "pack", "write_map", "created", "done"} =>
            LET c == C9_Greedy(SelectSeq(Candidates, C9_Parses), 0, max_size)
            IN  /\ Len(samples) = Len(c)
                /\ \A i \in 1..Len(c) :
                      samples[i].name = c[i][1] \o "/" \o c[i][2])

\* select_samples has returned on the budget while a candidate that would
\* have fitted was still waiting: one in the same directory, or one in a
\* later directory
C11_Witness ==
    /\ pc = "selected"
    /\ stdout[Len(stdout)].label = "Size limit reached at"
    /\ \/ /\ listing # <<>>
          /\ LibParsed[LibIndex(Head(listing))].pc = "ok"
          /\ total_size + HeadSize <= max_size
       \/ /\ listing = <<>>
          /\ priority_dirs[dir_idx] = "SYNTH_48"
          /\ fs.dirs["A"].exists
          /\ "c_odd.8svx" \in fs.dirs["A"].files
          /\ total_size + 3 <= max_size

\* The inner loop is at a candidate that parses to more than 32768 bytes
C12_AtLongSample ==
    /\ pc = "select_file" /\ listing # <<>>
    /\ LibParsed[LibIndex(Head(listing))].pc = "ok"
    /\ HeadSize > 32768

\* C12: a candidate longer than 32768 bytes is passed over before the budget
\* is looked at: the accepted list and the running total stay as they are,
\* selection goes on with the next candidate whether or not the candidate
\* would have fitted the budget, and no accepted sample is longer than 32768
\* bytes.
C12_LongSampleSkipped ==
    /\ [][C12_AtLongSample =>
            /\ samples' = samples
            /\ total_size' = total_size
            /\ stdout' = stdout
            /\ pc' = "select_file"
            /\ listing' = Tail(listing)
            /\ dir_idx' = dir_idx]_vars
    /\ [](\A i \in 1..Len(samples) :
             /\ Len(samples[i].pcm) <= 32768
             /\ samples[i].name \notin {"SYNTH_48/g_long.8svx", "A/g_long.8svx"})

\* A sample was accepted after the run's first candidate, 32769 bytes long
\* and larger than the whole budget, had been passed over
C12_Witness ==
    /\ fs.exists /\ Len(Candidates) >= 2
    /\ Candidates[1][2] = "g_long.8svx"
    /\ Len(LibTranscoded[LibIndex("g_long.8svx")]) = 32769
    /\ max_size = 15
    /\ samples # <<>>

====
